---------------------------- MODULE Spec2Model ----------------------------
(***************************************************************************)
(* Model of codegen-script.py: the one-shot batch script that compares the *)
(* IDL catalog with the header catalog, emits flags.py / enums.py /        *)
(* _mappings.py, patches base.py and backend/rs.py and mirrors its         *)
(* diagnostics into codegen_report.md.                                     *)
(*                                                                         *)
(* Text is a sequence of lexemes (strings).  Where the script looks at     *)
(* single characters (identifiers of functions, enum member names,         *)
(* indentation, punctuation) a lexeme is one character; elsewhere a lexeme *)
(* is a word the script never looks into.  Python's string methods are     *)
(* operators on such sequences.  The text of a file is the sequence of the *)
(* pieces that "\n" joins: "a\nb\n" is << a, b, <<>> >>.                   *)
(***************************************************************************)
EXTENDS Naturals, Sequences, FiniteSets, TLC

(***************************************************************************)
(* Python string methods on lexeme sequences                               *)
(***************************************************************************)
LowerChars == <<"a","b","c","d","e","f","g","h","i","j","k","l","m",
                "n","o","p","q","r","s","t","u","v","w","x","y","z">>
UpperChars == <<"A","B","C","D","E","F","G","H","I","J","K","L","M",
                "N","O","P","Q","R","S","T","U","V","W","X","Y","Z">>

\* word lexemes that contain upper-case characters, with their lower() image
MixedWords == <<"GPU", "Error", "Adapter", "Async">>
LowerWords == <<"gpu", "error", "adapter", "async">>

Range(s) == { s[i] : i \in 1..Len(s) }

IndexIn(c, s) == CHOOSE i \in 1..Len(s) : s[i] = c

IsUpperChar(c) == c \in Range(UpperChars)
IsLowerChar(c) == c \in Range(LowerChars)
IsCased(c) == IsUpperChar(c) \/ IsLowerChar(c)

LowerLex(c) ==
    IF IsUpperChar(c) THEN LowerChars[IndexIn(c, UpperChars)]
    ELSE IF c \in Range(MixedWords) THEN LowerWords[IndexIn(c, MixedWords)]
    ELSE c

UpperLex(c) ==
    IF IsLowerChar(c) THEN UpperChars[IndexIn(c, LowerChars)] ELSE c

\* str.lower()
Lower(s) == [i \in 1..Len(s) |-> LowerLex(s[i])]

\* str.title(): a cased character is upper-cased when the character before
\* it is not cased, and lower-cased otherwise
Title(s) ==
    [i \in 1..Len(s) |->
        IF ~IsCased(s[i]) THEN s[i]
        ELSE IF i > 1 /\ IsCased(s[i-1]) THEN LowerLex(s[i])
        ELSE UpperLex(s[i])]

IsSpace(c) == c \in {" ", "\n"}

RECURSIVE LStrip(_)
LStrip(s) == IF s # <<>> /\ IsSpace(Head(s)) THEN LStrip(Tail(s)) ELSE s

RECURSIVE RStrip(_)
RStrip(s) ==
    IF s # <<>> /\ IsSpace(s[Len(s)]) THEN RStrip(SubSeq(s, 1, Len(s) - 1))
    ELSE s

StartsWith(s, p) == Len(s) >= Len(p) /\ \A k \in 1..Len(p) : s[k] = p[k]
EndsWith(s, p) == Len(s) >= Len(p) /\ SubSeq(s, Len(s) - Len(p) + 1, Len(s)) = p

\* the positions of s at which p occurs
Occurrences(s, p) ==
    { i \in 1..(Len(s) + 1 - Len(p)) : \A k \in 1..Len(p) : s[i + k - 1] = p[k] }

\* p in s
Contains(s, p) == Occurrences(s, p) # {}

\* position of the first occurrence of p in s, 0 when there is none
Find(s, p) ==
    LET occ == Occurrences(s, p)
    IN IF occ = {} THEN 0 ELSE CHOOSE i \in occ : \A j \in occ : i <= j

\* s.split(p)[0]
Before(s, p) ==
    LET at == Find(s, p) IN IF at = 0 THEN s ELSE SubSeq(s, 1, at - 1)

\* s.split(p, 1)[1]   (only used where p occurs in s)
After(s, p) == SubSeq(s, Find(s, p) + Len(p), Len(s))

\* s.replace(p, r), p not empty
RECURSIVE Replace(_, _, _)
Replace(s, p, r) ==
    LET at == Find(s, p)
    IN IF at = 0 THEN s
       ELSE SubSeq(s, 1, at - 1) \o r \o Replace(SubSeq(s, at + Len(p), Len(s)), p, r)

\* s.split(p): all the pieces
RECURSIVE Split(_, _)
Split(s, p) ==
    LET at == Find(s, p)
    IN IF at = 0 THEN <<s>>
       ELSE <<SubSeq(s, 1, at - 1)>> \o Split(SubSeq(s, at + Len(p), Len(s)), p)

\* s.split(): the words between runs of white space
RECURSIVE Words(_)
Words(s) ==
    LET t == LStrip(s)
        n == IF \E i \in 1..Len(t) : IsSpace(t[i])
             THEN CHOOSE i \in 1..Len(t) :
                    IsSpace(t[i]) /\ \A j \in 1..(i - 1) : ~IsSpace(t[j])
             ELSE Len(t) + 1
    IN IF t = <<>> THEN <<>>
       ELSE <<SubSeq(t, 1, n - 1)>> \o Words(SubSeq(t, n, Len(t)))

Last(s) == s[Len(s)]

\* sep.join(parts)
RECURSIVE Join(_, _)
Join(sep, parts) ==
    IF parts = <<>> THEN <<>>
    ELSE IF Len(parts) = 1 THEN parts[1]
    ELSE parts[1] \o sep \o Join(sep, Tail(parts))

\* "\n".join(lines) as the text of a file
JoinLines(lines) == IF lines = <<>> THEN << <<>> >> ELSE lines

\* str.splitlines() of the text of a file
SplitLines(text) ==
    IF Last(text) = <<>> THEN SubSeq(text, 1, Len(text) - 1) ELSE text

\* " " * n
Spaces(n) == [i \in 1..n |-> " "]

(***************************************************************************)
(* Python dicts: a sequence of <<key, value>> pairs in insertion order     *)
(***************************************************************************)
Keys(d) == [i \in 1..Len(d) |-> d[i][1]]
Values(d) == [i \in 1..Len(d) |-> d[i][2]]
Has(d, k) == \E i \in 1..Len(d) : d[i][1] = k
Get(d, k) == d[CHOOSE i \in 1..Len(d) : d[i][1] = k][2]
\* d[k] = v: a key that is already there keeps its place
Put(d, k, v) ==
    IF Has(d, k) THEN [i \in 1..Len(d) |-> IF d[i][1] = k THEN <<k, v>> ELSE d[i]]
    ELSE Append(d, <<k, v>>)
\* d1 == d2 for dicts: same keys, same values, any order
DictEq(d1, d2) ==
    /\ Range(Keys(d1)) = Range(Keys(d2))
    /\ \A k \in Range(Keys(d1)) : Get(d1, k) = Get(d2, k)

\* f-string / repr() rendering of an int
Repr(n) == <<ToString(n)>>

(***************************************************************************)
(* The two catalogs.  ip is what IdlParser(...).parse() leaves behind, hp  *)
(* what HParser(...).parse() leaves behind: dicts flags, enums, structs    *)
(* (and, for ip, functions).  Names and keys are Text.                     *)
(***************************************************************************)
T(w) == <<w>>

\* enum member values of the IDL, character by character
LowPower == <<"l","o","w","-","p","o","w","e","r">>
HighPerformance == <<"h","i","g","h","-","p","e","r","f","o","r","m","a","n","c","e">>
Dim1d == <<"1","d">>
Dim2dArray == <<"2","d","-","a","r","r","a","y">>
R8Unorm == <<"r","8","u","n","o","r","m">>

\* keys of the header's enums, character by character
HLowPower == <<"L","o","w","P","o","w","e","r">>
HHighPerformance == <<"H","i","g","h","P","e","r","f","o","r","m","a","n","c","e">>
HDefault == <<"D","e","f","a","u","l","t">>
HD1 == <<"D","1">>
HD2Array == <<"D","2","A","r","r","a","y">>
HR8Unorm == <<"R","8","U","n","o","r","m">>
HR8unorm == <<"R","8","u","n","o","r","m">>

PowerPreference == T("PowerPreference")
TextureViewDimension == T("TextureViewDimension")
BufferUsage == T("BufferUsage")
ShaderStage == T("ShaderStage")

\* choices for ip.enums: each enum absent, or present with some members
IpEnumChoices ==
    { a \o b :
        a \in { <<>>,
                << <<PowerPreference, << <<T("low_power"), LowPower>> >> >> >>,
                << <<PowerPreference, << <<T("low_power"), LowPower>>,
                                         <<T("high_performance"), HighPerformance>> >> >> >> },
        b \in { <<>>,
                << <<TextureViewDimension, << <<T("d1"), Dim1d>>,
                                              <<T("d2_array"), Dim2dArray>>,
                                              <<T("r8unorm"), R8Unorm>> >> >> >> } }

\* choices for hp.enums
HpEnumChoices ==
    { a \o b :
        a \in { <<>>,
                << <<PowerPreference, << <<HDefault, 0>>, <<HLowPower, 1>> >> >> >>,
                << <<PowerPreference, << <<HLowPower, 1>>, <<HHighPerformance, 2>> >> >> >>,
                << <<PowerPreference, << <<HDefault, 0>>, <<HLowPower, 1>>,
                                         <<HHighPerformance, 2>> >> >> >> },
        b \in { <<>>,
                << <<TextureViewDimension, << <<HD1, 0>>, <<HD2Array, 1>>,
                                              <<HR8Unorm, 2>> >> >> >>,
                << <<TextureViewDimension, << <<HD2Array, 1>>,
                                              <<HR8unorm, 2>> >> >> >> } }

DefaultIpEnums ==
    << <<PowerPreference, << <<T("low_power"), LowPower>>,
                             <<T("high_performance"), HighPerformance>> >> >> >>
DefaultHpEnums ==
    << <<PowerPreference, << <<HLowPower, 1>>, <<HHighPerformance, 2>> >> >> >>

\* choices for ip.flags and hp.flags
IpFlagChoices ==
    { a \o b :
        a \in { <<>>,
                << <<BufferUsage, << <<T("MAP_READ"), 1>>, <<T("MAP_WRITE"), 2>> >> >> >>,
                << <<BufferUsage, << <<T("MAP_READ"), 1>> >> >> >> },
        b \in { <<>>, << <<ShaderStage, << <<T("VERTEX"), 1>> >> >> >> } }

HpFlagChoices ==
    { a \o b :
        a \in { <<>>,
                << <<BufferUsage, << <<T("MAP_READ"), 1>>, <<T("MAP_WRITE"), 2>> >> >> >>,
                << <<BufferUsage, << <<T("MAP_WRITE"), 2>>, <<T("MAP_READ"), 1>> >> >> >>,
                << <<BufferUsage, << <<T("MAP_READ"), 1>>, <<T("MAP_WRITE"), 4>> >> >> >> },
        b \in { <<>>, << <<ShaderStage, << <<T("VERTEX"), 1>> >> >> >> } }

DefaultFlags ==
    << <<BufferUsage, << <<T("MAP_READ"), 1>>, <<T("MAP_WRITE"), 2>> >> >> >>


\* a struct field: StructField(name, typename, default); default <<>> is None
Field(n, t, d) == [name |-> n, typename |-> t, default |-> d]

BufferDescriptor == <<"Buffer", "Descriptor">>
RequestAdapterOptions == <<"Request", "Adapter", "Options">>

IpStructs ==
    << <<BufferDescriptor,
         << <<T("label"), Field(T("label"), T("str"), <<>>)>>,
            <<T("size"), Field(T("size"), T("int"), <<>>)>> >> >>,
       <<RequestAdapterOptions,
         << <<T("power"), Field(T("power"), <<"GPU", "PowerPreference">>, T("None"))>> >> >>,
       <<T("Extent3D"),
         << <<T("width"), Field(T("width"), T("int"), <<>>)>> >> >> >>

HpStructs ==
    << <<BufferDescriptor,
         << <<T("todo"), Field(T("todo"), T("int"), <<>>)>>,
            <<T("size"), Field(T("size"), T("uint64_t"), <<>>)>>,
            <<<<"mapped", "_", "length">>,
              Field(<<"mapped", "_", "length">>, T("uintptr_t"), <<>>)>> >> >>,
       <<RequestAdapterOptions,
         << <<<<"power", "_", "preference">>,
              Field(<<"power", "_", "preference">>, <<"WGPU", "PowerPreference">>, <<>>)>> >> >>,
       <<T("U32Array"),
         << <<T("bytes"), Field(T("bytes"), T("uint32_t"), <<>>)>> >> >> >>

\* ip.functions: func_id -> the declaration line of the IDL
IdDF == <<"d", "f">>
IdDGAsync == <<"d", "g", "async">>
IdDH == <<"d", "h">>
IdDK == <<"d", "k">>
IdDKAsync == <<"d", "k", "async">>
IdRequestAdapter == <<"request", "adapter">>

LineF == <<"void", " ", "f", "(", "GPU", "Buffer", "Descriptor", " ", "descriptor", ")", ";">>
LineG ==
    <<"Promise", " ", "g", "(", "GPU", "Size64", " ", "offset", ",", " ",
      "optional", " ", "GPU", "Size64", " ", "size", " ", "=", " ", "0", ")", ";">>
LineH == <<"void", " ", "h", "(", ")", ";">>
LineK == <<"void", " ", "k", "(", "long", " ", "x", ")", ";">>
LineKAsync == <<"Promise", " ", "kAsync", "(", "long", " ", "y", ")", ";">>
LineRequestAdapter ==
    <<"Promise", " ", "requestAdapter", "(", "optional", " ", "GPU", "Request",
      "Adapter", "Options", " ", "options", " ", "=", " ", "{}", ")", ";">>

AllFunctions ==
    << <<IdDF, LineF>>, <<IdDGAsync, LineG>>, <<IdDH, LineH>>, <<IdDK, LineK>>,
       <<IdDKAsync, LineKAsync>>, <<IdRequestAdapter, LineRequestAdapter>> >>

\* the sub-sequence of s at the positions in the set keep
Pick(s, keep) == SelectSeq([i \in 1..Len(s) |-> <<i, s[i]>>], LAMBDA e : e[1] \in keep)

SubDict(d, keep) == [i \in 1..Len(Pick(d, keep)) |-> Pick(d, keep)[i][2]]

\* choices for ip.functions: the IDL declares any part of AllFunctions
FunctionChoices == { SubDict(AllFunctions, keep) : keep \in SUBSET (1..Len(AllFunctions)) }

Catalog(fl, en, st, fn) == [flags |-> fl, enums |-> en, structs |-> st, functions |-> fn]

(***************************************************************************)
(* print: every call goes to standard output and to the report file        *)
(***************************************************************************)
StdoutItem(by, text) == [by |-> by, text |-> text]

\* __builtins__.print(*args): the arguments joined by one space
BuiltinPrint(args) == Join(<<" ">>, args)

\* print as it would be if headings were bulleted too
printFaulty(io, args) ==
    [out |-> Append(io.out, StdoutItem("script", BuiltinPrint(args))),
     rep |-> Append(io.rep, BuiltinPrint(<<<<"*", " ">>>> \o args))]

\* print: to standard output as given, to the report with "* " in front
\* unless the first argument is a heading
print(io, args) ==
    [out |-> Append(io.out, StdoutItem("script", BuiltinPrint(args))),
     rep |-> Append(io.rep,
                BuiltinPrint(IF args # <<>> /\ ~StartsWith(LStrip(args[1]), <<"#">>)
                             THEN <<<<"*", " ">>>> \o args
                             ELSE args))]

\* a run of print calls, one argument each
RECURSIVE printAll(_, _)
printAll(io, items) ==
    IF items = <<>> THEN io
    ELSE printAll(print(io, <<Head(items)>>), Tail(items))


RECURSIVE Concat(_)
Concat(ss) == IF ss = <<>> THEN <<>> ELSE Head(ss) \o Concat(Tail(ss))

Heading(marks, title) == <<"\n">> \o marks \o <<" ", title>>

(***************************************************************************)
(* Compare webgpu.idl and wgpu.h                                           *)
(***************************************************************************)
\* "key:val, key:val" of a flags dict
FlagMembers(d) ==
    Join(<<",", " ">>, [i \in 1..Len(d) |-> d[i][1] \o <<":">> \o Repr(d[i][2])])

\* the lines printed by the three flag loops
FlagDiagnostics(i, h) ==
    Concat([n \in 1..Len(h.flags) |->
              IF ~Has(i.flags, h.flags[n][1])
              THEN << <<" ">> \o h.flags[n][1] \o <<" flag missing in .idl">> >>
              ELSE <<>>])
    \o Concat([n \in 1..Len(i.flags) |->
              IF ~Has(h.flags, i.flags[n][1])
              THEN << i.flags[n][1] \o <<" flag missing in .h">> >>
              ELSE <<>>])
    \o Concat([n \in 1..Len(h.flags) |->
              LET name == h.flags[n][1] IN
              IF Has(i.flags, name) /\ ~DictEq(h.flags[n][2], Get(i.flags, name))
              THEN << <<" ">> \o name,
                      <<"c: ">> \o FlagMembers(h.flags[n][2]),
                      <<"i: ">> \o FlagMembers(Get(i.flags, name)) >>
              ELSE <<>>])

\* hkey as it would be without .title()
HKeyNoTitle(ikey) ==
    LET d == Replace(Replace(Replace(ikey, <<"1","d">>, <<"D","1">>),
                             <<"2","d">>, <<"D","2">>), <<"3","d">>, <<"D","3">>)
    IN Replace(Replace(d, <<"-">>, <<" ">>), <<" ">>, <<>>)

\* hkey: the name of an IDL enum member in the header's convention
HKey(ikey) ==
    LET d == Replace(Replace(Replace(ikey, <<"1","d">>, <<"D","1">>),
                             <<"2","d">>, <<"D","2">>), <<"3","d">>, <<"D","3">>)
    IN Replace(Title(Replace(d, <<"-">>, <<" ">>)), <<" ">>, <<>>)

\* the <<name, ikey>> the nested enum loop visits, in order
EnumVisits(i, h) ==
    Concat([n \in 1..Len(h.enums) |->
              LET name == h.enums[n][1] IN
              IF ~Has(i.enums, name) THEN <<>>
              ELSE [m \in 1..Len(Get(i.enums, name)) |->
                        <<name, Values(Get(i.enums, name))[m]>>]])

EnumKey(name, ikey) == name \o <<".">> \o ikey

\* the nested enum loop: acc is [map, items]
RECURSIVE EnumLoop(_, _, _)
EnumLoop(h, visits, acc) ==
    IF visits = <<>> THEN acc
    ELSE LET name == Head(visits)[1]
             ikey == Head(visits)[2]
             henum == Get(h.enums, name)
         IN EnumLoop(h, Tail(visits),
                IF Has(henum, HKey(ikey))
                THEN [acc EXCEPT !.map = Put(@, EnumKey(name, ikey), Get(henum, HKey(ikey)))]
                ELSE [acc EXCEPT !.items = Append(@, EnumKey(name, ikey) \o <<" is missing">>)])

\* the "missing" lines as they would be with the first loop only
EnumMissingNativeOnly(i, h) ==
    Concat([n \in 1..Len(h.enums) |->
              IF ~Has(i.enums, h.enums[n][1])
              THEN << h.enums[n][1] \o <<" enum missing in .idl">> >>
              ELSE <<>>])

\* the lines printed by the two "missing" loops over the enums
EnumMissing(i, h) ==
    Concat([n \in 1..Len(h.enums) |->
              IF ~Has(i.enums, h.enums[n][1])
              THEN << h.enums[n][1] \o <<" enum missing in .idl">> >>
              ELSE <<>>])
    \o Concat([n \in 1..Len(i.enums) |->
              IF ~Has(h.enums, i.enums[n][1])
              THEN << i.enums[n][1] \o <<"enum missing in .h">> >>
              ELSE <<>>])

\* key.lower().replace("_length", "").replace("_", "")
NormKey(key) == Replace(Replace(Lower(key), <<"_", "length">>, <<>>), <<"_">>, <<>>)

\* str(list of keys)
ListRepr(keys) ==
    <<"[">> \o Join(<<",", " ">>, [k \in 1..Len(keys) |-> <<"'">> \o keys[k] \o <<"'">>])
            \o <<"]">>

StructDiagnostics(i, h) ==
    Concat([n \in 1..Len(h.structs) |->
              IF ~Has(i.structs, h.structs[n][1])
              THEN << h.structs[n][1] \o <<" struct missing in .idl">> >>
              ELSE <<>>])
    \o Concat([n \in 1..Len(i.structs) |->
              IF ~Has(h.structs, i.structs[n][1])
              THEN << i.structs[n][1] \o <<" struct missing in .h">> >>
              ELSE <<>>])
    \o Concat([n \in 1..Len(h.structs) |->
              LET name == h.structs[n][1] IN
              IF ~Has(i.structs, name) THEN <<>>
              ELSE LET keys1 == Keys(h.structs[n][2])
                       keys2 == Keys(Get(i.structs, name))
                       keys3 == { NormKey(keys1[k]) : k \in 1..Len(keys1) } \ {T("todo")}
                       keys4 == { Lower(keys2[k]) : k \in 1..Len(keys2) } \ {T("label")}
                   IN IF keys3 # keys4
                      THEN << <<" ">> \o name,
                              <<"c: ">> \o ListRepr(keys1),
                              <<"i: ">> \o ListRepr(keys2) >>
                      ELSE <<>>])


(***************************************************************************)
(* blacken: the external formatter is a formatting oracle; the texts of    *)
(* this model are already in its normal form, so what it returns on its    *)
(* standard output is its input.  What it writes on its error stream is    *)
(* free.                                                                   *)
(***************************************************************************)
Noqa == <<"#", " ", "noqa", ":">>

Logs == { <<"reformatted", " ", "-">>,
          <<"error", ":", " ", "cannot format -">>,
          <<"Error", ":", " ", "invalid line length">> }

\* what the subprocess returns on stdout for src
Black(src, ll) == src

RemoveNoqas(src) ==
    LET lines == SplitLines(src)
    IN JoinLines([n \in 1..Len(lines) |-> Before(lines[n], Noqa)])

I4 == Spaces(4)
I8 == Spaces(8)

\* result.replace("(\n        self", "(self")
RECURSIVE JoinSelf(_)
JoinSelf(text) ==
    IF Len(text) < 2 THEN text
    ELSE IF EndsWith(text[1], <<"(">>) /\ StartsWith(text[2], I8 \o <<"self">>)
    THEN JoinSelf(<<text[1] \o SubSeq(text[2], 9, Len(text[2]))>> \o SubSeq(text, 3, Len(text)))
    ELSE <<text[1]>> \o JoinSelf(Tail(text))

\* result.replace(",\n    ):\n", "):\n")
RECURSIVE JoinClose(_)
JoinClose(text) ==
    IF Len(text) < 3 THEN text
    ELSE IF EndsWith(text[1], <<",">>) /\ text[2] = I4 \o <<")", ":">>
    THEN <<SubSeq(text[1], 1, Len(text[1]) - 1) \o <<")", ":">> >>
         \o JoinClose(SubSeq(text, 3, Len(text)))
    ELSE <<text[1]>> \o JoinClose(Tail(text))

\* blacken as it would be with  "error" in log  instead of log.lower()
blackenCaseSensitive(src, singleline, log) ==
    LET src1 == IF singleline THEN RemoveNoqas(src) ELSE src
        ll == IF singleline THEN 9999999 ELSE 88
        result == Black(src1, ll)
    IN IF Contains(log, <<"error">>) THEN [ok |-> FALSE, text |-> log]
       ELSE [ok |-> TRUE, text |-> IF singleline THEN JoinClose(JoinSelf(result)) ELSE result]

\* blacken: [ok, text], the text being the result, or the log when it raises
blacken(src, singleline, log) ==
    LET src1 == IF singleline THEN RemoveNoqas(src) ELSE src
        ll == IF singleline THEN 9999999 ELSE 88
        result == Black(src1, ll)
    IN IF Contains(Lower(log), <<"error">>) THEN [ok |-> FALSE, text |-> log]
       ELSE [ok |-> TRUE, text |-> IF singleline THEN JoinClose(JoinSelf(result)) ELSE result]

(***************************************************************************)
(* Generate flags.py, enums.py and _mappings.py                            *)
(***************************************************************************)
Preamble(what) ==
    <<"\"\"\"", "\n", "THIS CODE IS AUTOGENERATED - DO NOT EDIT", "\n", "\n", what, "\n">>

FlagsSource(i) ==
    JoinLines(
         <<Preamble("class Flags"), <<"# %% flags (">> \o Repr(Len(i.flags)) \o <<")", "\n">> >>
         \o Concat([n \in 1..Len(i.flags) |->
              LET name == i.flags[n][1]
                  d == i.flags[n][2]
              IN << name \o <<" = Flags(", "\n">> \o I4 \o <<"\"">> \o name \o <<"\"", ",">> >>
                 \o [k \in 1..Len(d) |-> I4 \o d[k][1] \o <<"=">> \o Repr(d[k][2]) \o <<",">>]
                 \o << <<")", "\n">> >>]))

EnumsSource(i) ==
    JoinLines(
         <<Preamble("class Enum"), <<"# %% Enums (">> \o Repr(Len(i.enums)) \o <<")", "\n">> >>
         \o Concat([n \in 1..Len(i.enums) |->
              LET name == i.enums[n][1]
                  d == i.enums[n][2]
              IN << name \o <<" = Enum(", "\n">> \o I4 \o <<"\"">> \o name \o <<"\"", ",">> >>
                 \o [k \in 1..Len(d) |->
                        I4 \o d[k][1] \o <<"=", "\"">> \o d[k][2] \o <<"\"", ",">>]
                 \o << <<")", "\n">> >>]))

\* the "<struct>.<field>": "<enum>" lines of cstructfield2enum
StructFieldLines(i, h) ==
    Concat([n \in 1..Len(h.structs) |->
              LET structname == h.structs[n][1]
                  fields == Values(h.structs[n][2])
              IN Concat([k \in 1..Len(fields) |->
                    IF StartsWith(fields[k].typename, <<"WGPU">>)
                       /\ Has(i.enums, Tail(fields[k].typename))
                    THEN << I4 \o <<"\"">> \o structname \o <<".">> \o fields[k].name
                            \o <<"\"", ":", " ", "\"">> \o Tail(fields[k].typename)
                            \o <<"\"", ",">> >>
                    ELSE <<>>])])

\* one line of the emitted enummap
EnumMapLine(key, val) == I4 \o <<"\"">> \o key \o <<"\"", ":", " ">> \o Repr(val) \o <<",">>

MappingsSource(i, h, emap) ==
    JoinLines(
         <<Preamble("# flake8: noqa"), <<"enummap = {">> >>
         \o [k \in 1..Len(emap) |-> EnumMapLine(emap[k][1], emap[k][2])]
         \o << <<"}", "\n">>, <<"cstructfield2enum = {">> >>
         \o StructFieldLines(i, h)
         \o << <<"}", "\n">> >>)


(***************************************************************************)
(* Patching the hand-written source                                        *)
(***************************************************************************)
None == <<"<None>">>

\* Python truth of what get_func_id_match returns: None and "" are false
Truthy(x) == x # None /\ x # <<>>

Async == <<"async">>

\* get_func_id_match as it would be with func_id + "async" tried first
get_func_id_match_append_first(func_id, d) ==
    IF Has(d, func_id \o Async) THEN func_id \o Async
    ELSE IF Has(d, func_id) THEN func_id
    ELSE IF Has(d, Replace(func_id, Async, <<>>)) THEN Replace(func_id, Async, <<>>)
    ELSE None

\* the first of the three candidates that is a key of d, or None
get_func_id_match(func_id, d) ==
    LET tries == <<func_id, Replace(func_id, Async, <<>>), func_id \o Async>>
    IN IF \E t \in 1..3 : Has(d, tries[t])
       THEN tries[CHOOSE t \in 1..3 :
                    Has(d, tries[t]) /\ \A u \in 1..(t - 1) : ~Has(d, tries[u])]
       ELSE None

starts == { <<"#", " ", "IDL", ":", " ">>, <<"#", " ", "wgpu", ".", "help", "(">> }

\* line.lstrip().startswith(starts)
IsMarker(line) == \E st \in starts : StartsWith(LStrip(line), st)

\* api_lines as the patch loop has them before it looks for functions
StripMarkers(text) ==
    LET kept == SelectSeq(SplitLines(text), LAMBDA line : ~IsMarker(line))
    IN [n \in 1..Len(kept) |-> RStrip(kept[n])] \o << <<>> >>

IsDef(line) ==
    \/ StartsWith(LStrip(line), <<"def", " ">>)
    \/ StartsWith(LStrip(line), <<"async", " ", "def">>)

Indent(line) == Len(line) - Len(LStrip(line))

\* line.split("(")[0].split()[-1]
FuncName(line) == Last(Words(Before(line, <<"(">>)))

\* line.split(":")[0].split("(")[0].split()[-1]
ClassName(line) == Last(Words(Before(Before(line, <<":">>), <<"(">>)))

\* api_lines[i - 1] of Python, where index -1 is the last line
PrevLine(lines, i) == IF i = 1 THEN lines[Len(lines)] ELSE lines[i - 1]

Entry(funcname, i, indent) == [funcname |-> funcname, i |-> i, indent |-> indent]

\* The loop that detects the api functions.  Positions are counted from 1.
\* acc is [cls, fns, err]: current_class (None before the first class),
\* api_functions, and whether None + "." raised TypeError
RECURSIVE DetectLoop(_, _, _)
DetectLoop(lines, i, acc) ==
    IF i > Len(lines) \/ acc.err THEN acc
    ELSE
      LET line == lines[i]
          cls == IF StartsWith(line, <<"class", " ">>) THEN ClassName(line) ELSE acc.cls
          indent == Indent(line)
          bare == FuncName(line)
          recorded == /\ IsDef(line)
                      /\ ~StartsWith(bare, <<"_">>)
                      /\ ~StartsWith(LStrip(PrevLine(lines, i)), <<"@", "property">>)
          funcname == IF indent > 0 THEN cls \o <<".">> \o bare ELSE bare
          lowered == Lower(Replace(funcname, <<".">>, <<>>))
          func_id == IF StartsWith(funcname, <<"GPU">>) THEN Tail(lowered) ELSE lowered
      IN IF ~recorded THEN DetectLoop(lines, i + 1, [acc EXCEPT !.cls = cls])
         ELSE IF indent > 0 /\ cls = None THEN [acc EXCEPT !.err = TRUE]
         ELSE DetectLoop(lines, i + 1,
                [acc EXCEPT !.cls = cls,
                            !.fns = Put(@, func_id, Entry(funcname, i, indent))])

DetectFunctions(lines) == DetectLoop(lines, 1, [cls |-> None, fns |-> <<>>, err |-> FALSE])

\* StructField.py_arg(): the field as a Python parameter
py_arg(field) ==
    field.name \o <<":", " ">> \o field.typename
    \o (IF field.default = <<>> THEN <<>> ELSE <<"=">> \o field.default)

\* the arguments between the parentheses of an IDL declaration, blank ones dropped
IdlArgs(line) ==
    SelectSeq(Split(Before(After(line, <<"(">>), <<")">>), <<",">>),
              LAMBDA arg : LStrip(arg) # <<>>)

\* arg.split("=")[0].split()[-1] of each argument
ArgNames(args) == [k \in 1..Len(args) |-> Last(Words(Before(args[k], <<"=">>)))]

\* arg.split("=")[0].split()[-2] of each argument
ArgTypes(args) ==
    [k \in 1..Len(args) |-> LET w == Words(Before(args[k], <<"=">>)) IN w[Len(w) - 1]]

Searches(func_id_match, argtypes) ==
    LET gpu == SelectSeq(argtypes, LAMBDA t : StartsWith(t, <<"GPU">>))
        all == <<func_id_match>> \o [k \in 1..Len(gpu) |-> Tail(gpu[k])]
    IN [k \in 1..Len(all) |-> <<"'">> \o all[k] \o <<"'">>]

TakesStruct(argtypes) ==
    /\ Len(argtypes) = 1
    /\ Last(argtypes[1]) \in {"Options", "Descriptor"}

LabelStr == <<"label", ":", " ", "str">>
LabelDefault == <<"label", "=", "\"\"">>

\* py_args as they would be without the replacement of "label: str"
PyArgsNoLabelDefault(func_id, argnames, argtypes, structs) ==
    IF TakesStruct(argtypes)
    THEN LET arg_struct == Values(Get(structs, Tail(argtypes[1])))
             py_args == [k \in 1..Len(arg_struct) |-> py_arg(arg_struct[k])]
         IN (IF Contains(func_id, <<"request", "adapter">>)
             THEN << <<"*">> >> ELSE << <<"self">>, <<"*">> >>) \o py_args
    ELSE << <<"self">> >> \o argnames

\* py_args: the parameters the signature gets
PyArgs(func_id, argnames, argtypes, structs) ==
    IF TakesStruct(argtypes)
    THEN LET arg_struct == Values(Get(structs, Tail(argtypes[1])))
             py_args == [k \in 1..Len(arg_struct) |->
                            IF k = 1 /\ py_arg(arg_struct[1]) = LabelStr
                            THEN LabelDefault
                            ELSE py_arg(arg_struct[k])]
         IN (IF Contains(func_id, <<"request", "adapter">>)
             THEN << <<"*">> >> ELSE << <<"self">>, <<"*">> >>) \o py_args
    ELSE << <<"self">> >> \o argnames

\* the failures the rewrite of one signature can run into: the assert on the
\* type's prefix, ip.structs[...] and py_args[0]
RewriteFails(argtypes, structs) ==
    /\ TakesStruct(argtypes)
    /\ \/ ~StartsWith(argtypes[1], <<"GPU">>)
       \/ ~Has(structs, Tail(argtypes[1]))
       \/ Get(structs, Tail(argtypes[1])) = <<>>

Signature(pyline, py_args) ==
    Before(pyline, <<"(">>) \o <<"(">> \o Join(<<",", " ">>, py_args) \o <<")", ":">>

IdlMarker(indent, line) == Spaces(indent) \o <<"#", " ", "IDL", ":", " ">> \o line

HelpMarker(indent, searches) ==
    Spaces(indent) \o <<"#", " ", "wgpu", ".", "help", "(">>
    \o Join(<<",", " ">>, searches) \o <<",", " ", "dev=True", ")">>

\* list.insert(i, x), positions counted from 1
Insert(lines, i, x) == SubSeq(lines, 1, i - 1) \o <<x>> \o SubSeq(lines, i, Len(lines))

Reverse(s) == [k \in 1..Len(s) |-> s[Len(s) + 1 - k]]

\* The loop that injects the IDL definitions, over ids = reversed(keys).
\* acc is [lines, count, done, err]; done lists what was patched, in order:
\* the function, its match, the position used and the signature written there
RECURSIVE InjectLoop(_, _, _, _, _)
InjectLoop(ids, fns, i, fname, acc) ==
    IF ids = <<>> \/ acc.err THEN acc
    ELSE
      LET func_id == Head(ids)
          func_id_match == get_func_id_match(func_id, i.functions)
      IN IF ~Truthy(func_id_match) THEN InjectLoop(Tail(ids), fns, i, fname, acc)
         ELSE
           LET e == Get(fns, func_id)
               line == Get(i.functions, func_id_match)
               args == IdlArgs(line)
               argnames == ArgNames(args)
               argtypes == ArgTypes(args)
               pyline == acc.lines[e.i]
               rewritten == [acc.lines EXCEPT
                               ![e.i] = Signature(pyline,
                                          PyArgs(func_id, argnames, argtypes, i.structs))]
               withIdl == IF fname = "base.py"
                          THEN Insert(rewritten, e.i, IdlMarker(e.indent, line))
                          ELSE rewritten
               withHelp == Insert(withIdl, e.i,
                                  HelpMarker(e.indent, Searches(func_id_match, argtypes)))
           IN IF RewriteFails(argtypes, i.structs) THEN [acc EXCEPT !.err = TRUE]
              ELSE InjectLoop(Tail(ids), fns, i, fname,
                     [acc EXCEPT !.lines = withHelp,
                                 !.count = @ + 1,
                                 !.done = Append(@, [func_id |-> func_id,
                                                     match |-> func_id_match,
                                                     i |-> e.i,
                                                     sig |-> rewritten[e.i]])])

InjectOrder(fns) == Reverse(Keys(fns))

Inject(lines, fns, i, fname) ==
    InjectLoop(InjectOrder(fns), fns, i, fname,
               [lines |-> lines, count |-> 0, done |-> <<>>, err |-> FALSE])

\* the lines of "Report missing"
MissingReport(count, fns, i) ==
    << <<"Found", " ">> \o Repr(count) \o <<" ", "functions already implemented">> >>
    \o Concat([n \in 1..Len(i.functions) |->
                 IF ~Truthy(get_func_id_match(i.functions[n][1], fns))
                 THEN << <<"Not implemented: ">> \o i.functions[n][2] >>
                 ELSE <<>>])
    \o Concat([n \in 1..Len(fns) |->
                 IF ~Truthy(get_func_id_match(fns[n][1], i.functions))
                 THEN << <<"Found unknown function", " ">> \o fns[n][2].funcname >>
                 ELSE <<>>])


(***************************************************************************)
(* The hand-written files.  A file is a class line and then some blocks.   *)
(***************************************************************************)
ClassLine == <<"class", " ", "GPU", "D", ":">>
Pass(ind) == Spaces(ind) \o <<"pass">>
Def(ind, name, params) == Spaces(ind) \o <<"def", " ">> \o name \o <<"(">> \o params \o <<")", ":">>

\* def f(self, descriptor), implementing f(GPUBufferDescriptor descriptor)
BlockF == << Def(4, <<"f">>, <<"self", ",", " ", "descriptor">>), Pass(8) >>
\* its asynchronous twin
BlockFAsync ==
    << I4 \o <<"async", " ">> \o Def(0, <<"f", "Async">>, <<"self", ",", " ", "descriptor">>),
       Pass(8) >>
\* def g(self, a), whose IDL name is gAsync; the body holds a comment and a noqa
BlockG ==
    << Def(4, <<"g">>, <<"self", ",", " ", "a">>),
       I8 \o <<"#", " ", "wgpu", ".", "help">>,
       I8 \o <<"return a", " ", " ">> \o Noqa \o <<" ", "E501">> >>
\* a function the IDL does not know, under a marker of an earlier run
BlockU ==
    << I4 \o <<"#", " ", "wgpu", ".", "help", "(", "'", "d", "u", "'", ",", " ", "dev=True", ")">>,
       Def(4, <<"u">>, <<"self">>), Pass(8) >>
\* a property and a private method
BlockHidden ==
    << I4 \o <<"@", "property">>, Def(4, <<"q">>, <<"self">>), Pass(8),
       Def(4, <<"_", "p">>, <<"self">>), Pass(8) >>
\* the module-level requestAdapter
BlockRequestAdapter == << Def(0, <<"request", "Adapter">>, <<"options">>), Pass(4) >>
\* def k(self, x): both k and kAsync are in the IDL
BlockK == << Def(4, <<"k">>, <<"self", ",", " ", "x">>), Pass(8) >>

Blocks == <<BlockF, BlockFAsync, BlockG, BlockU>>

\* the most blocks a hand-written file of the model has
MaxBlocks == 3

FileOf(lines) == lines \o << <<>> >>

BlockSeqs == UNION { [1..n -> 1..Len(Blocks)] : n \in 0..MaxBlocks }

FileChoices ==
    { FileOf(<<ClassLine>> \o Concat([k \in 1..Len(bs) |-> Blocks[bs[k]]])) : bs \in BlockSeqs }
    \cup { FileOf(BlockF) }

DefaultFile ==
    FileOf(<<ClassLine>> \o BlockF \o BlockFAsync \o BlockK \o BlockU \o BlockHidden
           \o BlockRequestAdapter)

fnames == <<"base.py", "backend/rs.py">>

\* how many times in a row the maintainer runs the script
MaxRuns == 2

(***************************************************************************)
(* The script as a state machine                                           *)
(***************************************************************************)
VARIABLES
    pc,             \* where the script is
    run,            \* which run of the script this is
    ip, hp,         \* the two catalogs
    files,          \* the files on disk: name -> text
    stdout,         \* what was written to standard output
    report,         \* the lines of codegen_report.md
    enummap,
    fidx,           \* the loop "for fname in (...)": position in fnames
    api_lines, api_functions, count,
    log,            \* what the last formatter call wrote to its error stream
    prev,           \* files and report as the previous run left them
    before,         \* api_lines as they were before the injection
    done            \* the functions patched in the current file, in order

vars == <<pc, run, ip, hp, files, stdout, report, enummap, fidx, api_lines,
          api_functions, count, log, prev, before, done>>

Old == << <<"old">>, <<>> >>

Disk(base, rs) ==
    [f \in {"flags.py", "enums.py", "_mappings.py", "base.py", "backend/rs.py"} |->
        IF f = "base.py" THEN base ELSE IF f = "backend/rs.py" THEN rs ELSE Old]

DefaultIp == Catalog(DefaultFlags, DefaultIpEnums, IpStructs, AllFunctions)
DefaultHp == Catalog(DefaultFlags, DefaultHpEnums, HpStructs, <<>>)

\* the inputs: one of the descriptors or one of the hand-written files varies
Inputs ==
    { [ip |-> Catalog(DefaultFlags, e, IpStructs, AllFunctions),
       hp |-> Catalog(DefaultFlags, h, HpStructs, <<>>),
       files |-> Disk(DefaultFile, DefaultFile)] : e \in IpEnumChoices, h \in HpEnumChoices }
    \cup
    { [ip |-> Catalog(fi, DefaultIpEnums, IpStructs, AllFunctions),
       hp |-> Catalog(fh, DefaultHpEnums, HpStructs, <<>>),
       files |-> Disk(DefaultFile, DefaultFile)] : fi \in IpFlagChoices, fh \in HpFlagChoices }
    \cup
    { [ip |-> Catalog(DefaultFlags, DefaultIpEnums, IpStructs, fn),
       hp |-> DefaultHp,
       files |-> Disk(DefaultFile, DefaultFile)] : fn \in FunctionChoices }
    \cup
    { [ip |-> DefaultIp, hp |-> DefaultHp, files |-> Disk(b, DefaultFile)] : b \in FileChoices }
    \cup
    { [ip |-> DefaultIp, hp |-> DefaultHp, files |-> Disk(DefaultFile, r)] : r \in FileChoices }

Init ==
    /\ \E in \in Inputs : ip = in.ip /\ hp = in.hp /\ files = in.files
    /\ pc = "start"
    /\ run = 1
    /\ stdout = <<>>
    /\ report = <<>>
    /\ enummap = <<>>
    /\ fidx = 1
    /\ api_lines = <<>>
    /\ api_functions = <<>>
    /\ count = 0
    /\ log = <<>>
    /\ prev = [files |-> files, report |-> <<>>]
    /\ before = <<>>
    /\ done = <<>>

io == [out |-> stdout, rep |-> report]

Say(items) ==
    /\ stdout' = printAll(io, items).out
    /\ report' = printAll(io, items).rep

\* report_file = open(..., "wt"): the report of an earlier run is gone
OpenReport ==
    /\ pc = "start"
    /\ report' = <<>>
    /\ pc' = "parse_idl"
    /\ UNCHANGED <<run, ip, hp, files, stdout, enummap, fidx, api_lines, api_functions,
                   count, log, prev, before, done>>

\* what parse(verbose=True) writes, with the print of its own module
ParserOutput(which) == << StdoutItem("parser", <<which, " ", "parsed">>) >>

ParseIdl ==
    /\ pc = "parse_idl"
    /\ stdout' = stdout \o ParserOutput("webgpu.idl")
    /\ pc' = "parse_h"
    /\ UNCHANGED <<run, ip, hp, files, report, enummap, fidx, api_lines, api_functions,
                   count, log, prev, before, done>>

ParseH ==
    /\ pc = "parse_h"
    /\ stdout' = stdout \o ParserOutput("wgpu.h")
    /\ pc' = "header"
    /\ UNCHANGED <<run, ip, hp, files, report, enummap, fidx, api_lines, api_functions,
                   count, log, prev, before, done>>

PrintHeader ==
    /\ pc = "header"
    /\ LET io1 == print(io, << <<"#", " ", "wgpu-py codegen report">> >>)
           io2 == print(io1, << <<"Running">>, <<"codegen-script.py">> >>)
           io3 == print(io2, << Heading(<<"#", "#">>, "Comparing webgpu.idl with wgpu.h") >>)
       IN stdout' = io3.out /\ report' = io3.rep
    /\ enummap' = <<>>
    /\ pc' = "flags"
    /\ UNCHANGED <<run, ip, hp, files, fidx, api_lines, api_functions, count, log, prev,
                   before, done>>

CompareFlags ==
    /\ pc = "flags"
    /\ Say(<<Heading(<<"#", "#", "#">>, "Comparing flags")>> \o FlagDiagnostics(ip, hp))
    /\ pc' = "enums"
    /\ UNCHANGED <<run, ip, hp, files, enummap, fidx, api_lines, api_functions, count, log,
                   prev, before, done>>

CompareEnums ==
    /\ pc = "enums"
    /\ LET r == EnumLoop(hp, EnumVisits(ip, hp), [map |-> enummap, items |-> <<>>])
       IN /\ Say(<<Heading(<<"#", "#", "#">>, "Comparing enums")>>
                 \o EnumMissing(ip, hp) \o r.items)
          /\ enummap' = r.map
    /\ pc' = "structs"
    /\ UNCHANGED <<run, ip, hp, files, fidx, api_lines, api_functions, count, log, prev,
                   before, done>>

CompareStructs ==
    /\ pc = "structs"
    /\ Say(<<Heading(<<"#", "#", "#">>, "Comparing structs")>> \o StructDiagnostics(ip, hp))
    /\ pc' = "gen_flags"
    /\ UNCHANGED <<run, ip, hp, files, enummap, fidx, api_lines, api_functions, count, log,
                   prev, before, done>>

\* code = blacken(...); write the file; print("Written to ...")
EmitFlags ==
    /\ pc = "gen_flags"
    /\ \E lg \in Logs :
        LET r == blacken(FlagsSource(ip), FALSE, lg)
            head == <<Heading(<<"#", "#">>, "Generate API code")>>
        IN /\ log' = lg
           /\ IF r.ok
              THEN /\ files' = [files EXCEPT !["flags.py"] = r.text]
                   /\ Say(head \o << <<"Written to flags.py">> >>)
                   /\ pc' = "gen_enums"
              ELSE /\ files' = files
                   /\ Say(head)
                   /\ pc' = "aborted"
    /\ UNCHANGED <<run, ip, hp, enummap, fidx, api_lines, api_functions, count, prev,
                   before, done>>

EmitEnums ==
    /\ pc = "gen_enums"
    /\ \E lg \in Logs :
        LET r == blacken(EnumsSource(ip), FALSE, lg)
        IN /\ log' = lg
           /\ IF r.ok
              THEN /\ files' = [files EXCEPT !["enums.py"] = r.text]
                   /\ Say(<< <<"Written to enums.py">> >>)
                   /\ pc' = "gen_map"
              ELSE /\ UNCHANGED <<files, stdout, report>>
                   /\ pc' = "aborted"
    /\ UNCHANGED <<run, ip, hp, enummap, fidx, api_lines, api_functions, count, prev,
                   before, done>>

EmitMappings ==
    /\ pc = "gen_map"
    /\ \E lg \in Logs :
        LET r == blacken(MappingsSource(ip, hp, enummap), FALSE, lg)
        IN /\ log' = lg
           /\ IF r.ok
              THEN /\ files' = [files EXCEPT !["_mappings.py"] = r.text]
                   /\ Say(<< <<"Written to _mappings.py">>,
                             Heading(<<"#", "#">>, "Checking and patching hand-written API code") >>)
                   /\ pc' = "read"
              ELSE /\ UNCHANGED <<files, stdout, report>>
                   /\ pc' = "aborted"
    /\ UNCHANGED <<run, ip, hp, enummap, fidx, api_lines, api_functions, count, prev,
                   before, done>>

fname == fnames[fidx]

\* read the file, one line per signature, without the markers of earlier runs
ReadFile ==
    /\ pc = "read"
    /\ Say(<< <<"\n", "#", "#", "#", " ", "Check functions in", " ", fname>> >>)
    /\ \E lg \in Logs :
        LET r == blacken(files[fname], TRUE, lg)
        IN /\ log' = lg
           /\ IF r.ok
              THEN /\ api_lines' = StripMarkers(r.text)
                   /\ pc' = "scan"
              ELSE /\ api_lines' = api_lines
                   /\ pc' = "aborted"
    /\ UNCHANGED <<run, ip, hp, files, enummap, fidx, api_functions, count, prev, before, done>>

\* detect the api functions
Scan ==
    /\ pc = "scan"
    /\ LET r == DetectFunctions(api_lines)
       IN IF r.err
          THEN pc' = "aborted" /\ api_functions' = api_functions
          ELSE pc' = "inject" /\ api_functions' = r.fns
    /\ before' = api_lines
    /\ UNCHANGED <<run, ip, hp, files, stdout, report, enummap, fidx, api_lines, count, log,
                   prev, done>>

\* inject the IDL definitions
InjectIdl ==
    /\ pc = "inject"
    /\ LET r == Inject(api_lines, api_functions, ip, fname)
       IN IF r.err
          THEN pc' = "aborted" /\ UNCHANGED <<api_lines, count, done>>
          ELSE /\ pc' = "missing"
               /\ api_lines' = r.lines
               /\ count' = r.count
               /\ done' = r.done
    /\ UNCHANGED <<run, ip, hp, files, stdout, report, enummap, fidx, api_functions, log,
                   prev, before>>

ReportMissing ==
    /\ pc = "missing"
    /\ Say(MissingReport(count, api_functions, ip))
    /\ pc' = "write"
    /\ UNCHANGED <<run, ip, hp, files, enummap, fidx, api_lines, api_functions, count, log,
                   prev, before, done>>

WriteBack ==
    /\ pc = "write"
    /\ \E lg \in Logs :
        LET r == blacken(JoinLines(api_lines), FALSE, lg)
        IN /\ log' = lg
           /\ IF r.ok
              THEN /\ files' = [files EXCEPT ![fname] = r.text]
                   /\ Say(<< <<"Injected IDL lines into", " ", fname>> >>)
                   /\ pc' = IF fidx < Len(fnames) THEN "read" ELSE "close"
                   /\ fidx' = IF fidx < Len(fnames) THEN fidx + 1 ELSE fidx
              ELSE /\ UNCHANGED <<files, stdout, report, fidx>>
                   /\ pc' = "aborted"
    /\ UNCHANGED <<run, ip, hp, enummap, api_lines, api_functions, count, prev, before, done>>

CloseReport ==
    /\ pc = "close"
    /\ pc' = "done"
    /\ UNCHANGED <<run, ip, hp, files, stdout, report, enummap, fidx, api_lines,
                   api_functions, count, log, prev, before, done>>

\* the maintainer runs the script again, on what the run before left on disk
Rerun ==
    /\ pc = "done"
    /\ run < MaxRuns
    /\ run' = run + 1
    /\ prev' = [files |-> files, report |-> report]
    /\ pc' = "start"
    /\ stdout' = <<>>
    /\ enummap' = <<>>
    /\ fidx' = 1
    /\ api_lines' = <<>>
    /\ api_functions' = <<>>
    /\ count' = 0
    /\ log' = <<>>
    /\ before' = <<>>
    /\ done' = <<>>
    /\ UNCHANGED <<ip, hp, files, report>>

Next == OpenReport \/ ParseIdl \/ ParseH \/ PrintHeader \/ CompareFlags \/ CompareEnums
        \/ CompareStructs \/ EmitFlags \/ EmitEnums \/ EmitMappings \/ ReadFile \/ Scan
        \/ InjectIdl \/ ReportMissing \/ WriteBack \/ CloseReport \/ Rerun

Spec == Init /\ [][Next]_vars

(***************************************************************************)
(* Properties                                                              *)
(***************************************************************************)
\* the bulleted form of a line in the report
Bullet(text) == <<"*", " ", " ">> \o text

IsHeading(text) == StartsWith(LStrip(text), <<"#">>)

\* the lines of the report below its last heading
SectionTail(rep) ==
    LET hs == { k \in 1..Len(rep) : IsHeading(rep[k]) }
        last == IF hs = {} THEN 0 ELSE CHOOSE k \in hs : \A j \in hs : j <= k
    IN SubSeq(rep, last + 1, Len(rep))

\* the three candidates of a function id
Stripped(func_id) == Replace(func_id, Async, <<>>)
Appended(func_id) == func_id \o Async

Patched(func_id) == \E k \in 1..Len(done) : done[k].func_id = func_id

\* C10: get_func_id_match tries the id itself, the id without "async" and
\* the id followed by "async", in that order, and returns the first that is
\* a key of the dictionary, and no match only when none of them is a key;
\* the patch loop treats a function as matched exactly when a match came back.
C10_FirstCandidateWins ==
    pc = "missing" =>
      \A n \in 1..Len(api_functions) :
        LET func_id == api_functions[n][1]
            d == ip.functions
            r == get_func_id_match(func_id, d)
        IN /\ Has(d, func_id) => r = func_id
           /\ ~Has(d, func_id) /\ Has(d, Stripped(func_id)) => r = Stripped(func_id)
           /\ ~Has(d, func_id) /\ ~Has(d, Stripped(func_id)) /\ Has(d, Appended(func_id))
                => r = Appended(func_id)
           /\ r = None <=> ~(Has(d, func_id) \/ Has(d, Stripped(func_id))
                             \/ Has(d, Appended(func_id)))
           /\ Patched(func_id) <=> r # None

\* a file with a function matched only without "async", one matched only
\* with "async" appended, and one without a match
C10_Witness ==
    /\ pc = "missing"
    /\ \E n \in 1..Len(api_functions) :
         LET func_id == api_functions[n][1] IN
         /\ ~Has(ip.functions, func_id) /\ Stripped(func_id) # func_id
         /\ Has(ip.functions, Stripped(func_id)) /\ Patched(func_id)
    /\ \E n \in 1..Len(api_functions) :
         LET func_id == api_functions[n][1] IN
         /\ ~Has(ip.functions, func_id) /\ ~Has(ip.functions, Stripped(func_id))
         /\ Has(ip.functions, Appended(func_id)) /\ Patched(func_id)
    /\ \E n \in 1..Len(api_functions) : ~Patched(api_functions[n][1])

\* the name of an interface member in the native convention: 1d/2d/3d become
\* D1/D2/D3, then the words between hyphens are capitalised and concatenated
NativeName(ikey) ==
    LET d == Replace(Replace(Replace(ikey, <<"1","d">>, <<"D","1">>),
                             <<"2","d">>, <<"D","2">>), <<"3","d">>, <<"D","3">>)
        ws == Split(d, <<"-">>)
    IN Concat([k \in 1..Len(ws) |-> Title(ws[k])])

\* the enums of both catalogs, and the member values of one in the interface
SharedEnums == { n \in Range(Keys(hp.enums)) : Has(ip.enums, n) }
IMembers(name) == Range(Values(Get(ip.enums, name)))

\* the interface members without a native counterpart
Unmapped ==
    { <<name, ikey>> \in UNION { {n} \X IMembers(n) : n \in SharedEnums } :
        ~Has(Get(hp.enums, name), NativeName(ikey)) }

AfterEnums == pc \notin {"start", "parse_idl", "parse_h", "header", "flags", "enums"}

\* C3: after the enum comparison enummap holds '<Enum>.<member>' -> value
\* exactly for the enums of both catalogs and their interface members whose
\* native name is a key of the native enum, with that key's value; any
\* other member of an enum in both catalogs is reported as missing and has
\* no entry.
C3_EnumMapIff ==
    AfterEnums =>
      /\ Range(enummap) =
           { <<EnumKey(name, ikey), Get(Get(hp.enums, name), NativeName(ikey))>> :
               <<name, ikey>> \in
                 (UNION { {n} \X IMembers(n) : n \in SharedEnums }) \ Unmapped }
      /\ \A k1, k2 \in 1..Len(enummap) : enummap[k1][1] = enummap[k2][1] => k1 = k2
      /\ \A u \in Unmapped :
           /\ ~Has(enummap, EnumKey(u[1], u[2]))
           /\ Bullet(EnumKey(u[1], u[2]) \o <<" is missing">>) \in Range(report)

\* entries were made, one of them through D1 or a capitalised word, and a
\* member was reported
C3_Witness ==
    /\ pc = "structs"
    /\ Unmapped # {}
    /\ \E k \in 1..Len(enummap) : enummap[k][1] = EnumKey(TextureViewDimension, Dim2dArray)
    /\ \E k \in 1..Len(enummap) : enummap[k][1] = EnumKey(TextureViewDimension, R8Unorm)

\* the report mirrors the items out: one line each, in order, bulleted
\* unless the item is a heading
Mirrors(rep, out) ==
    /\ Len(rep) = Len(out)
    /\ \A k \in 1..Len(out) :
         rep[k] = IF IsHeading(out[k].text) THEN out[k].text ELSE Bullet(out[k].text)

ByScript == SelectSeq(stdout, LAMBDA it : it.by = "script")
ByParser == SelectSeq(stdout, LAMBDA it : it.by = "parser")

\* C5 as stated: once the report file is open, everything the run wrote to
\* standard output, the verbose output of the two parse calls included, is
\* in the report in the same order.
C5_ReportMirrorsStdout == pc # "start" => Mirrors(report, stdout)

\* C5: once the report file is open, the report holds, in order, exactly
\* what the script's own print calls wrote to standard output, with "* " in
\* front of every line that is not a heading and headings as they are; what
\* the parsers print while parsing is on standard output only.
C5_ReportMirrorsScriptPrints ==
    pc # "start" =>
      /\ Mirrors(report, ByScript)
      /\ \A k \in 1..Len(ByParser) :
           /\ ByParser[k].text \notin Range(report)
           /\ Bullet(ByParser[k].text) \notin Range(report)

\* a finished run whose report has headings and bullets and whose standard
\* output has parser lines too
C5_Witness ==
    /\ pc = "done"
    /\ ByParser # <<>>
    /\ \E k \in 1..Len(report) : IsHeading(report[k])
    /\ \E k \in 1..Len(report) : StartsWith(report[k], <<"*", " ">>)

HasError(lg) == Contains(Lower(lg), <<"error">>)

\* C6 as stated: whenever the formatter wrote anything to its error stream,
\* the script has stopped.
C6_AnyLogAborts == log # <<>> => pc = "aborted"

\* C6: a formatter call whose error stream contains "error" in any casing
\* stops the script: the step writes no file, and no step follows it.  Other
\* output on the error stream does not stop it.
C6_ErrorLogAborts ==
    [][ /\ pc # "aborted"
        /\ HasError(log') => pc' = "aborted" /\ files' = files
        /\ pc \in {"gen_flags", "gen_enums", "gen_map", "read", "write"} /\ ~HasError(log')
             => log' # <<>> /\ pc' # "aborted" ]_vars

\* the formatter wrote "Error: ..." and the script stopped before base.py
C6_Witness ==
    /\ pc = "aborted"
    /\ HasError(log) /\ ~Contains(log, <<"error">>)
    /\ files["_mappings.py"] # Old /\ files = [prev.files EXCEPT !["flags.py"] = files["flags.py"],
                                                 !["enums.py"] = files["enums.py"],
                                                 !["_mappings.py"] = files["_mappings.py"]]

\* the enums one catalog has and the other has not
OnlyNative == { n \in Range(Keys(hp.enums)) : ~Has(ip.enums, n) }
OnlyInterface == { n \in Range(Keys(ip.enums)) : ~Has(hp.enums, n) }

\* the native members of an enum in both catalogs without an interface member
NativeExtras ==
    { <<name, hkey>> \in UNION { {n} \X Range(Keys(Get(hp.enums, n))) : n \in SharedEnums } :
        \A ikey \in IMembers(name) : NativeName(ikey) # hkey }

Mentions(text, name) == Contains(text, name)

\* C7 as stated: enums get the checks of the flags in both directions: an
\* enum in one catalog only is reported, and an enum of both catalogs whose
\* member sets differ is reported, whichever side has the extra member.
C7_EnumsReportedBothWays ==
    pc = "structs" =>
      /\ \A n \in OnlyNative \cup OnlyInterface :
           \E k \in 1..Len(SectionTail(report)) : Mentions(SectionTail(report)[k], n)
      /\ \A d \in Unmapped \cup NativeExtras :
           \E k \in 1..Len(SectionTail(report)) : Mentions(SectionTail(report)[k], d[1])

\* C7: an enum in one catalog only is reported, and so is every interface
\* member of an enum of both catalogs that has no native counterpart; a
\* native member without an interface counterpart is not reported: the
\* section holds these lines and no others.
C7_EnumsReportedOneWay ==
    pc = "structs" =>
      /\ \A n \in OnlyNative :
           Bullet(n \o <<" enum missing in .idl">>) \in Range(SectionTail(report))
      /\ \A n \in OnlyInterface :
           Bullet(n \o <<"enum missing in .h">>) \in Range(SectionTail(report))
      /\ \A u \in Unmapped :
           Bullet(EnumKey(u[1], u[2]) \o <<" is missing">>) \in Range(SectionTail(report))
      /\ Len(SectionTail(report)) =
           Cardinality(OnlyNative) + Cardinality(OnlyInterface) + Cardinality(Unmapped)

\* an enum of both catalogs has a native member of its own and all its
\* interface members are mapped, another enum is in one catalog only
C7_Witness ==
    /\ pc = "structs"
    /\ NativeExtras # {}
    /\ \E e \in NativeExtras : \A u \in Unmapped : u[1] # e[1]
    /\ OnlyNative \cup OnlyInterface # {}

\* the parameters of a written signature, as text
Params(sig) == Before(After(sig, <<"(">>), <<")", ":">>)

PatchedBy(match) == { k \in 1..Len(done) : done[k].match = match }

Core(lines) == SelectSeq(lines, LAMBDA l : ~IsMarker(l))

CorePos(lines, k) ==
    CHOOSE p \in 1..Len(lines) :
      ~IsMarker(lines[p]) /\ Cardinality({ q \in 1..p : ~IsMarker(lines[q]) }) = k

\* the recorded functions with a match in the interface
Matched == { n \in 1..Len(api_functions) :
               Truthy(get_func_id_match(api_functions[n][1], ip.functions)) }

\* the marker lines directly above a line of the patched file
RECURSIVE MarkersAbove(_, _)
MarkersAbove(lines, p) ==
    IF p > 1 /\ IsMarker(lines[p - 1])
    THEN Append(MarkersAbove(lines, p - 1), lines[p - 1])
    ELSE <<>>

\* C9: the patch loop goes through the recorded functions from the last to
\* the first, so inserting markers never invalidates a position still to be
\* used: positions are used in strictly decreasing order, every rewritten
\* line is the signature of the function it was recorded for, with that
\* function's markers directly above it, and no other line of the file is
\* rewritten or lost, also when two functions of the file share an id.
C9_PositionsStayValid ==
    pc = "missing" =>
      /\ \A k \in 1..(Len(done) - 1) : done[k].i > done[k + 1].i
      /\ Len(Core(api_lines)) = Len(before)
      /\ \A k \in 1..Len(before) :
           Core(api_lines)[k] # before[k] =>
             /\ \E n \in Matched : api_functions[n][2].i = k
             /\ IsDef(before[k])
             /\ Before(Core(api_lines)[k], <<"(">>) = Before(before[k], <<"(">>)
      /\ \A n \in Matched :
           LET e == api_functions[n][2]
               above == MarkersAbove(api_lines, CorePos(api_lines, e.i))
           IN /\ IsDef(Core(api_lines)[e.i])
              /\ Len(above) = IF fname = "base.py" THEN 2 ELSE 1
              /\ \A m \in 1..Len(above) : Indent(above[m]) = e.indent

\* the "Found unknown function" line of a function
Unknown(funcname) == Bullet(<<"Found unknown function", " ">> \o funcname)

\* C2: every recorded function is either matched, and then has marker lines
\* directly above its signature and is not reported, or unmatched, and then
\* is reported as unknown and its signature is as it was, with no marker
\* above it; never both and never neither.
C2_PatchedXorReported ==
    pc = "write" =>
      /\ Len(Core(api_lines)) = Len(before)
      /\ \A n \in 1..Len(api_functions) :
           LET e == api_functions[n][2]
               p == CorePos(api_lines, e.i)
               reported == Unknown(e.funcname) \in Range(SectionTail(report))
               marked == MarkersAbove(api_lines, p) # <<>>
           IN /\ IsDef(api_lines[p])
              /\ \/ n \in Matched /\ marked /\ ~reported
                 \/ n \notin Matched /\ reported /\ ~marked /\ api_lines[p] = before[e.i]

\* the lines of a file that are neither comments nor signatures
IsComment(line) == StartsWith(LStrip(line), <<"#">>)
Body(text) == SelectSeq(SplitLines(text), LAMBDA l : ~IsComment(l) /\ ~IsDef(l))

\* C1: when both files are written back, the lines that are neither
\* comments nor signatures are what they were before the run, in both.
C1_BodiesUntouched ==
    pc \in {"close", "done"} =>
      \A f \in Range(fnames) : Body(files[f]) = Body(prev.files[f])

\* C4: a second run on the same descriptors, over what the first run left,
\* leaves every generated file, both hand-written files and the report as
\* the first run left them.
C4_SecondRunChangesNothing ==
    run = 2 /\ pc = "done" => files = prev.files /\ report = prev.report
=============================================================================
